---- MODULE Spec2Model ----
(***************************************************************************)
(* A model of pagerank.py: transition_model, sample_pagerank and           *)
(* iterate_pagerank over a link graph (corpus).                            *)
(*                                                                         *)
(* Numbers.  A Python float x is modelled as the integer x * SCALE.        *)
(* SCALE is a multiple of every divisor that transition_model and          *)
(* sample_pagerank meet within the bounds (number of pages, number of      *)
(* links, denominator of the damping factor, sample count), so their       *)
(* divisions are exact; the divisions of iterate_pagerank truncate to      *)
(* 1/SCALE.  The damping factor is the fraction d[1]/d[2].                 *)
(*                                                                         *)
(* Pages.  The keys of corpus are 1..N in the dict's iteration order.      *)
(* Outside is a page name that is not a key of any corpus.                 *)
(*                                                                         *)
(* Objects.  The dict() that call number k builds for its return value    *)
(* has identity k (NewDict); the corpus has identity CorpusId.            *)
(***************************************************************************)
EXTENDS Integers, FiniteSets, Sequences, TLC

MaxPages == 2
MaxSamples == 2
MaxCalls == 2
PassCap == 3

SCALE == 240 * 40000
DAMPING == <<17, 20>>
SAMPLES == 10000
DampingFactors == {<<1, 2>>, DAMPING}
Threshold == SCALE \div 1000
Outside == 0
CorpusId == 0

VARIABLES corpus, damping_factor, calls, returnedIds,
          pc, op, outcome, result, resultId,
          page, n, steps, current_page, t_model,
          go, idx, passStart, passes

vars == <<corpus, damping_factor, calls, returnedIds,
          pc, op, outcome, result, resultId,
          page, n, steps, current_page, t_model,
          go, idx, passStart, passes>>

----------------------------------------------------------------------------
(* Helpers *)

RECURSIVE SumOver(_, _)
SumOver(f, S) ==
  IF S = {} THEN 0
  ELSE LET x == CHOOSE y \in S : TRUE IN f[x] + SumOver(f, S \ {x})

Total(f) == SumOver(f, DOMAIN f)

Abs(x) == IF x < 0 THEN -x ELSE x

Pages(c) == DOMAIN c

EmptyDict == [p \in {} |-> 0]

(* crawl: no page links to itself, and every link is a key *)
WellFormed(c) ==
  \A p \in Pages(c) : c[p] \subseteq (Pages(c) \ {p})

(* a link set references a page outside the universe, or no page at all *)
Malformed(c) ==
  \/ Pages(c) = {}
  \/ \E p \in Pages(c) : ~(c[p] \subseteq Pages(c))

Graphs ==
  UNION { [1..k -> SUBSET ((1..k) \cup {Outside})] : k \in 0..MaxPages }

Corpora ==
  { c \in Graphs : \A p \in Pages(c) : p \notin c[p] }

----------------------------------------------------------------------------
(* transition_model *)

OneMinus(d) == SCALE - ((d[1] * SCALE) \div d[2])

(* the link share divided by the number of pages, not of links *)
transition_model_linkShareOverN(c, pg, d) ==
  IF pg \notin Pages(c)
    THEN [status |-> "KeyError", dist |-> EmptyDict]
  ELSE IF Cardinality(c[pg]) = 0
    THEN [status |-> "returned",
          dist |-> [p \in Pages(c) |-> SCALE \div Cardinality(Pages(c))]]
  ELSE IF ~(c[pg] \subseteq Pages(c))
    THEN [status |-> "KeyError", dist |-> EmptyDict]
  ELSE [status |-> "returned",
        dist |-> [p \in Pages(c) |->
                    (OneMinus(d) \div Cardinality(Pages(c)))
                    + (IF p \in c[pg]
                         THEN (d[1] * SCALE) \div (d[2] * Cardinality(Pages(c)))
                         ELSE 0)]]

(* no special case for a page without links *)
transition_model_noSinkCase(c, pg, d) ==
  IF pg \notin Pages(c)
    THEN [status |-> "KeyError", dist |-> EmptyDict]
  ELSE IF ~(c[pg] \subseteq Pages(c))
    THEN [status |-> "KeyError", dist |-> EmptyDict]
  ELSE [status |-> "returned",
        dist |-> [p \in Pages(c) |->
                    (OneMinus(d) \div Cardinality(Pages(c)))
                    + (IF p \in c[pg]
                         THEN (d[1] * SCALE) \div (d[2] * Cardinality(c[pg]))
                         ELSE 0)]]

transition_model(c, pg, d) ==
  IF pg \notin Pages(c)
    THEN [status |-> "KeyError", dist |-> EmptyDict]
  ELSE IF Cardinality(c[pg]) = 0
    THEN [status |-> "returned",
          dist |-> [p \in Pages(c) |-> SCALE \div Cardinality(Pages(c))]]
  ELSE IF ~(c[pg] \subseteq Pages(c))
    THEN [status |-> "KeyError", dist |-> EmptyDict]
  ELSE [status |-> "returned",
        dist |-> [p \in Pages(c) |->
                    (OneMinus(d) \div Cardinality(Pages(c)))
                    + (IF p \in c[pg]
                         THEN (d[1] * SCALE) \div (d[2] * Cardinality(c[pg]))
                         ELSE 0)]]

----------------------------------------------------------------------------
Init ==
  /\ corpus \in Corpora
  /\ damping_factor \in DampingFactors
  /\ calls = 0
  /\ returnedIds = {}
  /\ pc = "idle"
  /\ op = "none"
  /\ outcome = "none"
  /\ result = EmptyDict
  /\ resultId = CorpusId
  /\ page = 0
  /\ n = 0
  /\ steps = 0
  /\ current_page = 0
  /\ t_model = EmptyDict
  /\ go = FALSE
  /\ idx = 0
  /\ passStart = EmptyDict
  /\ passes = 0

(* result = dict(): the object the running call builds and returns *)
NewDict == calls + 1

(* the end of a call: the caller gets the mapping or the exception *)
Finish(o, r, rid) ==
  /\ pc' = "idle"
  /\ outcome' = o
  /\ result' = r
  /\ resultId' = rid
  /\ calls' = calls + 1
  /\ returnedIds' = IF o = "returned" THEN returnedIds \cup {rid} ELSE returnedIds

(* a page without links is given links to every page, in the corpus itself *)
TransitionCall_fillsSink ==
  /\ pc = "idle"
  /\ calls < MaxCalls
  /\ \E pg \in 1..MaxPages :
       LET r == transition_model(corpus, pg, damping_factor) IN
         /\ page' = pg
         /\ op' = "transition_model"
         /\ Finish(r.status, r.dist, NewDict)
         /\ corpus' = IF pg \in Pages(corpus) /\ corpus[pg] = {}
                        THEN [corpus EXCEPT ![pg] = Pages(corpus)]
                        ELSE corpus
  /\ n' = 0 /\ steps' = 0 /\ current_page' = 0 /\ t_model' = EmptyDict
  /\ go' = FALSE /\ idx' = 0 /\ passStart' = EmptyDict /\ passes' = 0
  /\ UNCHANGED damping_factor

(* lines 52-80 as one step: the caller passes any page name *)
TransitionCall ==
  /\ pc = "idle"
  /\ calls < MaxCalls
  /\ \E pg \in 1..MaxPages :
       LET r == transition_model(corpus, pg, damping_factor) IN
         /\ page' = pg
         /\ op' = "transition_model"
         /\ Finish(r.status, r.dist, NewDict)
  /\ n' = 0 /\ steps' = 0 /\ current_page' = 0 /\ t_model' = EmptyDict
  /\ go' = FALSE /\ idx' = 0 /\ passStart' = EmptyDict /\ passes' = 0
  /\ UNCHANGED <<corpus, damping_factor>>

----------------------------------------------------------------------------
(* sample_pagerank *)

(* lines 92-98: result and t_model are two new dicts over the keys *)
SampleCall ==
  /\ pc = "idle"
  /\ calls < MaxCalls
  /\ \E k \in (-1)..MaxSamples : n' = k
  /\ op' = "sample_pagerank"
  /\ pc' = "sample"
  /\ outcome' = "none"
  /\ result' = [p \in Pages(corpus) |-> 0]
  /\ resultId' = NewDict
  /\ t_model' = [p \in Pages(corpus) |-> 1]
  /\ steps' = 0 /\ current_page' = 0 /\ page' = 0
  /\ go' = FALSE /\ idx' = 0 /\ passStart' = EmptyDict /\ passes' = 0
  /\ UNCHANGED <<corpus, damping_factor, calls, returnedIds>>

(* random.choices(keys, weights): any key whose weight is positive *)
Choices(weights) == { p \in DOMAIN weights : weights[p] > 0 }

(* lines 101-105: one iteration of the sampling loop *)
SampleStep ==
  /\ pc = "sample"
  /\ steps < n
  /\ IF Pages(corpus) = {}
       THEN /\ Finish("IndexError", EmptyDict, resultId)
            /\ UNCHANGED <<steps, current_page, t_model>>
       ELSE \E cp \in Choices(t_model) :
              LET r == transition_model(corpus, cp, damping_factor)
                  counted == [result EXCEPT ![cp] = @ + 1] IN
                /\ current_page' = cp
                /\ IF r.status = "returned"
                     THEN /\ result' = counted
                          /\ t_model' = r.dist
                          /\ steps' = steps + 1
                          /\ UNCHANGED <<pc, outcome, resultId, calls, returnedIds>>
                     ELSE /\ Finish(r.status, EmptyDict, resultId)
                          /\ UNCHANGED <<steps, t_model>>
  /\ UNCHANGED <<corpus, damping_factor, op, page, n, go, idx, passStart, passes>>

(* divides by the module's SAMPLES, not by the argument n *)
Normalise_bySAMPLES(count, k) == (count * SCALE) \div SAMPLES

(* result[p] / n for a counter (an int) and the sample count *)
Normalise(count, k) ==
  IF k > 0 THEN (count * SCALE) \div k ELSE -((count * SCALE) \div (-k))

(* lines 107-109: the loop is over; divide every counter by n *)
SampleFinish ==
  /\ pc = "sample"
  /\ ~(steps < n)
  /\ IF n = 0 /\ Pages(corpus) # {}
       THEN Finish("ZeroDivisionError", EmptyDict, resultId)
       ELSE Finish("returned", [p \in DOMAIN result |-> Normalise(result[p], n)], resultId)
  /\ UNCHANGED <<corpus, damping_factor, op, page, n, steps, current_page,
                 t_model, go, idx, passStart, passes>>

----------------------------------------------------------------------------
(* iterate_pagerank *)

(* lines 121-125: every page starts at 1/N *)
IterCall ==
  /\ pc = "idle"
  /\ calls < MaxCalls
  /\ op' = "iterate_pagerank"
  /\ pc' = "iterate"
  /\ outcome' = "none"
  /\ result' = [p \in Pages(corpus) |-> SCALE \div Cardinality(Pages(corpus))]
  /\ resultId' = NewDict
  /\ go' = FALSE
  /\ idx' = 1
  /\ passStart' = result'
  /\ passes' = 0
  /\ page' = 0 /\ n' = 0 /\ steps' = 0 /\ current_page' = 0 /\ t_model' = EmptyDict
  /\ UNCHANGED <<corpus, damping_factor, calls, returnedIds>>

(* lines 133-136: what linker adds to sigma for page pg *)
Contribution(c, ranks, linker, pg) ==
  IF Cardinality(c[linker]) = 0 THEN ranks[linker] \div Cardinality(Pages(c))
  ELSE IF pg \in c[linker] THEN ranks[linker] \div Cardinality(c[linker])
  ELSE 0

(* lines 130-138 *)
NewResult(c, ranks, pg, d) ==
  LET sigma == SumOver([linker \in Pages(c) |-> Contribution(c, ranks, linker, pg)],
                       Pages(c))
  IN (OneMinus(d) \div Cardinality(Pages(c))) + ((d[1] * sigma) \div d[2])

(* the new rank alone is compared with the threshold *)
Significant_noDifference(new, old) == Abs(new) > Threshold

(* line 140 *)
Significant(new, old) == Abs(new - old) > Threshold

(* go is assigned, not raised: only the last page of a pass decides *)
IterPage_lastPageDecides ==
  /\ pc = "iterate"
  /\ idx \in Pages(corpus)
  /\ LET new_result == NewResult(corpus, result, idx, damping_factor) IN
       /\ go' = Significant(new_result, result[idx])
       /\ result' = [result EXCEPT ![idx] = new_result]
  /\ idx' = idx + 1
  /\ UNCHANGED <<corpus, damping_factor, calls, returnedIds, pc, op, outcome,
                 resultId, page, n, steps, current_page, t_model, passStart, passes>>

(* lines 129-142: one iteration of the loop over the pages *)
IterPage ==
  /\ pc = "iterate"
  /\ idx \in Pages(corpus)
  /\ LET new_result == NewResult(corpus, result, idx, damping_factor) IN
       /\ go' = (go \/ Significant(new_result, result[idx]))
       /\ result' = [result EXCEPT ![idx] = new_result]
  /\ idx' = idx + 1
  /\ UNCHANGED <<corpus, damping_factor, calls, returnedIds, pc, op, outcome,
                 resultId, page, n, steps, current_page, t_model, passStart, passes>>

(* lines 127-128, 143-145: the pass is over; stop or start the next one.
   passes counts the finished passes of the call, up to PassCap. *)
IterPassEnd ==
  /\ pc = "iterate"
  /\ idx \notin Pages(corpus)
  /\ passes' = IF passes < PassCap THEN passes + 1 ELSE passes
  /\ IF go
       THEN /\ go' = FALSE
            /\ idx' = 1
            /\ passStart' = result
            /\ UNCHANGED <<pc, outcome, result, resultId, calls, returnedIds>>
       ELSE /\ Finish("returned", result, resultId)
            /\ UNCHANGED <<go, idx, passStart>>
  /\ UNCHANGED <<corpus, damping_factor, op, page, n, steps, current_page, t_model>>

----------------------------------------------------------------------------
Next ==
  \/ TransitionCall
  \/ SampleCall
  \/ SampleStep
  \/ SampleFinish
  \/ IterCall
  \/ IterPage
  \/ IterPassEnd

Spec == Init /\ [][Next]_vars

(* the relaxation loop is always scheduled: single thread, no suspension *)
FairSpec == Spec /\ WF_vars(IterPage) /\ WF_vars(IterPassEnd)

----------------------------------------------------------------------------
(* Properties *)

(* the last call was operation o and it is over *)
Done(o) == pc = "idle" /\ calls > 0 /\ op = o

(* C1: for a well-formed graph and a page of it, transition_model returns a
   mapping whose keys are exactly the keys of the graph and whose values sum
   to 1 *)
C1_TransitionIsDistribution ==
  (Done("transition_model") /\ WellFormed(corpus) /\ page \in Pages(corpus)) =>
    /\ outcome = "returned"
    /\ DOMAIN result = Pages(corpus)
    /\ Total(result) = SCALE

C1_Witness ==
  /\ Done("transition_model") /\ WellFormed(corpus) /\ page \in Pages(corpus)
  /\ outcome = "returned"
  /\ Cardinality(Pages(corpus)) = MaxPages
  /\ Cardinality(corpus[page]) = MaxPages - 1

(* C2: transition_model gives every page q exactly 1/N when the current page
   has no links, (1-d)/N + d/k when q is one of its k links, and (1-d)/N
   otherwise (stated on fractions, cross-multiplied) *)
C2_TransitionValues ==
  (Done("transition_model") /\ WellFormed(corpus) /\ page \in Pages(corpus)) =>
    LET N == Cardinality(Pages(corpus))
        k == Cardinality(corpus[page])
        dn == damping_factor[1]
        dd == damping_factor[2]
    IN /\ outcome = "returned"
       /\ DOMAIN result = Pages(corpus)
       /\ \A q \in Pages(corpus) :
            IF k = 0 THEN result[q] * N = SCALE
            ELSE IF q \in corpus[page]
              THEN result[q] * (dd * N * k) = SCALE * ((dd - dn) * k + dn * N)
            ELSE result[q] * (dd * N) = SCALE * (dd - dn)

C2_Witness ==
  /\ Done("transition_model") /\ WellFormed(corpus) /\ page \in Pages(corpus)
  /\ outcome = "returned"
  /\ corpus[page] = {}
  /\ \E q \in Pages(corpus) : corpus[q] # {}

(* C3: while a pass runs, every rank already written in it is the value
   computed from the ranks that the previous pass left *)
C3_RanksFromPreviousPass ==
  (pc = "iterate" /\ WellFormed(corpus)) =>
    \A q \in Pages(corpus) :
      q < idx => result[q] = NewResult(corpus, passStart, q, damping_factor)

(* C4: for a well-formed graph with at least one page, iterate_pagerank
   returns a mapping over all the pages whose values sum to 1.0 within 1e-6 *)
C4_IterateSumsToOne ==
  (Done("iterate_pagerank") /\ WellFormed(corpus) /\ Pages(corpus) # {}) =>
    /\ outcome = "returned"
    /\ DOMAIN result = Pages(corpus)
    /\ Abs(Total(result) - SCALE) <= SCALE \div 1000000

(* the last pass moved no rank by more than the threshold *)
Settled == \A p \in Pages(corpus) : Abs(result[p] - passStart[p]) <= Threshold

(* C5: every call of iterate_pagerank comes to a pass in which no rank moves
   by more than 0.001, and returns *)
C5_IterateTerminates ==
  (pc = "iterate") ~>
    (Done("iterate_pagerank") /\ outcome = "returned" /\ Settled)

C5_Witness ==
  /\ Done("iterate_pagerank") /\ outcome = "returned" /\ Settled
  /\ WellFormed(corpus)
  /\ passes = PassCap
  /\ \E p \in Pages(corpus) : result[p] # SCALE \div Cardinality(Pages(corpus))

(* a step that ends a pass of iterate_pagerank *)
PassEnds == pc = "iterate" /\ idx \notin Pages(corpus) /\ passes' >= 1

(* C6: at the end of a pass iterate_pagerank returns exactly when no rank
   moved by more than 0.001 in that pass; otherwise it starts another pass at
   the first page; and it never returns before the end of a pass *)
C6_StopsIffSettled ==
  [][ /\ PassEnds =>
           /\ (pc' = "idle" /\ outcome' = "returned") <=> Settled
           /\ pc' # "idle" => (pc' = "iterate" /\ idx' = 1 /\ result' = result)
      /\ (pc = "iterate" /\ pc' = "idle") => (PassEnds /\ passes' >= 1)
    ]_vars

C6_Witness ==
  /\ Done("iterate_pagerank") /\ outcome = "returned"
  /\ passes >= 2

(* C7: sample_pagerank with n <= 0, on a well-formed graph with at least one
   page, performs no sampling step and fails with InvalidSampleCount *)
C7_RejectsNonPositiveCount ==
  (op = "sample_pagerank" /\ n <= 0 /\ WellFormed(corpus) /\ Pages(corpus) # {}) =>
    /\ steps = 0
    /\ pc = "idle" => outcome = "InvalidSampleCount"

(* C8: for n >= 1 and a well-formed graph with at least one page, after i
   steps of the walk the counters are over all the pages and sum to i; the
   walk ends after exactly n steps with a mapping over all the pages whose
   values are in [0,1] and sum to 1 *)
C8_WalkCountsEveryStep ==
  (op = "sample_pagerank" /\ n >= 1 /\ WellFormed(corpus) /\ Pages(corpus) # {}) =>
    /\ DOMAIN result = Pages(corpus)
    /\ pc = "sample" => (steps <= n /\ Total(result) = steps)
    /\ pc = "idle" =>
         /\ outcome = "returned"
         /\ steps = n
         /\ \A p \in Pages(corpus) : 0 <= result[p] /\ result[p] <= SCALE
         /\ Total(result) = SCALE

C8_Witness ==
  /\ Done("sample_pagerank") /\ outcome = "returned"
  /\ WellFormed(corpus)
  /\ n = MaxSamples /\ steps = n
  /\ \A p \in Pages(corpus) : result[p] > 0
  /\ Cardinality(Pages(corpus)) > 1

(* C9: on a malformed graph every operation fails with MalformedGraph *)
C9_MalformedGraphRejected ==
  (pc = "idle" /\ calls > 0 /\ Malformed(corpus)) => outcome = "MalformedGraph"

(* C10: no step changes the corpus, and a call that returns a mapping returns
   an object that is neither the corpus nor a mapping returned before *)
C10_CorpusReadOnlyResultFresh ==
  [][ /\ corpus' = corpus
      /\ (calls' = calls + 1 /\ outcome' = "returned") =>
           resultId' \notin (returnedIds \cup {CorpusId})
    ]_vars

C10_Witness ==
  /\ pc = "idle" /\ calls = 2
  /\ Cardinality(returnedIds) = 2

====
